---- MODULE Spec2Model ----
\* LogpushEstimator: the SQLite-backed store of log size observations
\* (package database, SQLiteController) and the callers that use it
\* concurrently.  The table log_sizes is modelled as SQLite holds it: a set
\* of rows keyed by an AUTOINCREMENT id whose timestamp column holds the TEXT
\* the driver binds for a time.Time.  The analytics of package handlers
\* (calculateStats, aggregateByHour) are modelled as functions of the slice
\* a handler reads from the store.
EXTENDS Integers, Sequences, FiniteSets, TLC

\* ------------------------------------------------------------------ bounds
NumCallers == 2
MaxRows == 2
MaxClock == 2
MaxOff == 1
MaxSize == 1
MaxFaults == 1

Callers == 1..NumCallers
Instants == 0..MaxClock
Offsets == 0..MaxOff
Sizes == (0 - 1)..MaxSize

\* A time.Time value: an instant together with the UTC offset it carries.
Times == [inst : Instants, off : Offsets]

VARIABLES
    table,    \* rows of log_sizes: [id, timestamp (TEXT), filesize]
    seq,      \* sqlite_sequence value of the AUTOINCREMENT key
    closed,   \* sql.DB has been closed
    now,      \* the wall clock read by time.Now()
    zone,     \* UTC offset of time.Local in this process
    faults,   \* storage failures injected so far by the environment
    pc,       \* per caller: "idle", "exec", "insret", "rows"
    loc,      \* per caller: the locals of the call in progress (id: the row it
              \* wrote, late: the pool was closed when the call was made)
    ret,      \* what the call that returned last gave its caller (again: a
              \* Close of a closed pool)
    insLog,   \* InsertLogSize calls that returned nil, in order of return
    overlap,  \* two InsertLogSize calls have been in flight at once
    logs,     \* the []database.LogSize handed to an analytics function
    result,   \* what the analytics function applied last returned
    resp      \* the HTTP response written last, with the method and the body
              \* length of the request it answers

vars == <<table, seq, closed, now, zone, faults, pc, loc, ret, insLog, overlap,
          logs, result, resp>>

NoLoc == [op |-> "none"]
NoRet == [op |-> "none", err |-> FALSE]
NoResult == [fn |-> "none"]
NoResp == [path |-> "none", status |-> 0]

\* ------------------------------------------------- time.Time <-> TEXT column

\* Rank of the "+hh:mm" / "-hh:mm" suffix in byte order: '+' sorts before '-',
\* and within one sign the digits sort by magnitude.
OffRank(off) == IF off >= 0 THEN off ELSE MaxOff - off

RankOff(r) == IF r <= MaxOff THEN r ELSE MaxOff - r

\* The text bound for a time.Time argument: the wall-clock reading in the
\* value's own offset, followed by that offset.
BindTime(t) == <<t.inst + t.off, OffRank(t.off)>>

\* A scan that reads the wall-clock digits and drops the offset.
ScanTimeNoOffset(x) == [inst |-> x[1], off |-> 0]

\* The time.Time scanned back from a stored text.
ScanTime(x) == [inst |-> x[1] - RankOff(x[2]), off |-> RankOff(x[2])]

\* BINARY collation on the bound text.
TextLess(a, b) == a[1] < b[1] \/ (a[1] = b[1] /\ a[2] < b[2])

TextLeq(a, b) == a = b \/ TextLess(a, b)

\* time.Now(): the current instant in the process's local zone.
TimeNow == [inst |-> now, off |-> zone]

\* ------------------------------------------------------------ the SQL

Ids(T) == {r.id : r \in T}

\* rows.Scan(&l.ID, &l.Timestamp, &l.Filesize)
ScanRow(r) == [ID |-> r.id, Timestamp |-> ScanTime(r.timestamp), Filesize |-> r.filesize]

\* ORDER BY id DESC
IdAfter(r, s) == r.id > s.id

\* ORDER BY id
IdBefore(r, s) == r.id < s.id

RECURSIVE OrderById(_)
OrderById(T) ==
    IF T = {} THEN <<>>
    ELSE LET r == CHOOSE x \in T : \A y \in T \ {x} : IdBefore(x, y)
         IN <<r>> \o OrderById(T \ {r})

\* An ordering that puts the newer of two rows with one timestamp first.
TimestampBeforeNewest(r, s) ==
    TextLess(r.timestamp, s.timestamp) \/ (r.timestamp = s.timestamp /\ r.id > s.id)

\* ORDER BY timestamp, walked along idx_log_sizes_timestamp whose entries are
\* (timestamp, rowid) pairs.
TimestampBefore(r, s) ==
    TextLess(r.timestamp, s.timestamp) \/ (r.timestamp = s.timestamp /\ r.id < s.id)

RECURSIVE OrderByTimestamp(_)
OrderByTimestamp(T) ==
    IF T = {} THEN <<>>
    ELSE LET r == CHOOSE x \in T : \A y \in T \ {x} : TimestampBefore(x, y)
         IN <<r>> \o OrderByTimestamp(T \ {r})

\* WHERE timestamp >= ? AND timestamp < ?   with (start, end) bound as text
InRange(r, start, end) ==
    TextLeq(BindTime(start), r.timestamp) /\ TextLess(r.timestamp, BindTime(end))

MapScan(rows) == [i \in 1..Len(rows) |-> ScanRow(rows[i])]

\* SELECT id, timestamp, filesize FROM log_sizes ORDER BY id
SelectAll(T) == MapScan(OrderById(T))

\* SELECT ... WHERE timestamp >= ? AND timestamp < ? ORDER BY timestamp
SelectRange(T, start, end) ==
    MapScan(OrderByTimestamp({r \in T : InRange(r, start, end)}))

\* A row stamped by the statement with the clock at the commit, as a column
\* DEFAULT CURRENT_TIMESTAMP would.
NewRowStamped(ts, filesize) ==
    [id |-> seq + 1, timestamp |-> BindTime(TimeNow), filesize |-> filesize]

\* INSERT INTO log_sizes (timestamp, filesize) VALUES (?, ?)
NewRow(ts, filesize) == [id |-> seq + 1, timestamp |-> BindTime(ts), filesize |-> filesize]

\* ------------------------------------------------------------ the state

InsertInFlight == {c \in Callers : pc[c] \in {"exec", "insret"}}

Init ==
    /\ table = {}
    /\ seq = 0
    /\ closed = FALSE
    /\ now = 0
    /\ zone \in Offsets
    /\ faults = 0
    /\ pc = [c \in Callers |-> "idle"]
    /\ loc = [c \in Callers |-> NoLoc]
    /\ ret = NoRet
    /\ insLog = <<>>
    /\ overlap = FALSE
    /\ logs = <<>>
    /\ result = NoResult
    /\ resp = NoResp

\* The wall clock advances.
Tick ==
    /\ now < MaxClock
    /\ now' = now + 1
    /\ UNCHANGED <<table, seq, closed, zone, faults, pc, loc, ret, insLog, overlap, logs, result, resp>>

\* InsertLogSize, up to the evaluation of the arguments of db.Exec: time.Now()
\* is read here, before the statement runs.
InsertBegin(c, filesize) ==
    /\ pc[c] = "idle"
    /\ Cardinality(table) + Cardinality({d \in Callers : pc[d] = "exec"}) < MaxRows
    /\ pc' = [pc EXCEPT ![c] = "exec"]
    /\ loc' = [loc EXCEPT ![c] = [op |-> "InsertLogSize", ts |-> TimeNow,
                                  filesize |-> filesize, id |-> 0, late |-> closed]]
    /\ overlap' = (overlap \/ InsertInFlight # {})
    /\ UNCHANGED <<table, seq, closed, now, zone, faults, ret, insLog, logs, result, resp>>

\* A statement that reports a storage failure after its row was written.
InsertExecPartial(c) ==
    /\ pc[c] = "exec"
    /\ \/ /\ closed
          /\ loc' = [loc EXCEPT ![c] = [@ EXCEPT !.op = "InsertFailed"]]
          /\ UNCHANGED <<table, seq, faults>>
       \/ /\ ~closed
          /\ faults < MaxFaults
          /\ faults' = faults + 1
          /\ table' = table \cup {NewRow(loc[c].ts, loc[c].filesize)}
          /\ seq' = seq + 1
          /\ loc' = [loc EXCEPT ![c] = [@ EXCEPT !.op = "InsertFailed"]]
       \/ /\ ~closed
          /\ table' = table \cup {NewRow(loc[c].ts, loc[c].filesize)}
          /\ seq' = seq + 1
          /\ loc' = [loc EXCEPT ![c] = [@ EXCEPT !.op = "InsertDone", !.id = seq + 1]]
          /\ UNCHANGED faults
    /\ pc' = [pc EXCEPT ![c] = "insret"]
    /\ UNCHANGED <<closed, now, zone, ret, insLog, overlap, logs, result, resp>>

\* An INSERT OR REPLACE on a table keyed by timestamp.
InsertExecReplace(c) ==
    /\ pc[c] = "exec"
    /\ \/ /\ closed
          /\ loc' = [loc EXCEPT ![c] = [@ EXCEPT !.op = "InsertFailed"]]
          /\ UNCHANGED <<table, seq, faults>>
       \/ /\ ~closed
          /\ faults < MaxFaults
          /\ faults' = faults + 1
          /\ loc' = [loc EXCEPT ![c] = [@ EXCEPT !.op = "InsertFailed"]]
          /\ UNCHANGED <<table, seq>>
       \/ /\ ~closed
          /\ table' = {r \in table : r.timestamp # BindTime(loc[c].ts)}
                       \cup {NewRow(loc[c].ts, loc[c].filesize)}
          /\ seq' = seq + 1
          /\ loc' = [loc EXCEPT ![c] = [@ EXCEPT !.op = "InsertDone", !.id = seq + 1]]
          /\ UNCHANGED faults
    /\ pc' = [pc EXCEPT ![c] = "insret"]
    /\ UNCHANGED <<closed, now, zone, ret, insLog, overlap, logs, result, resp>>

\* A statement that finds the database locked by another writer and drops
\* the error.
InsertExecBusy(c) ==
    /\ pc[c] = "exec"
    /\ \/ /\ closed
          /\ loc' = [loc EXCEPT ![c] = [@ EXCEPT !.op = "InsertFailed"]]
          /\ UNCHANGED <<table, seq, faults>>
       \/ /\ ~closed
          /\ faults < MaxFaults
          /\ faults' = faults + 1
          /\ loc' = [loc EXCEPT ![c] = [@ EXCEPT !.op = "InsertFailed"]]
          /\ UNCHANGED <<table, seq>>
       \/ /\ ~closed
          /\ \E d \in Callers \ {c} : pc[d] = "exec"
          /\ loc' = [loc EXCEPT ![c] = [@ EXCEPT !.op = "InsertDone"]]
          /\ UNCHANGED <<table, seq, faults>>
       \/ /\ ~closed
          /\ table' = table \cup {NewRow(loc[c].ts, loc[c].filesize)}
          /\ seq' = seq + 1
          /\ loc' = [loc EXCEPT ![c] = [@ EXCEPT !.op = "InsertDone", !.id = seq + 1]]
          /\ UNCHANGED faults
    /\ pc' = [pc EXCEPT ![c] = "insret"]
    /\ UNCHANGED <<closed, now, zone, ret, insLog, overlap, logs, result, resp>>

\* An insert that fails while another caller holds a rows cursor.
InsertExecLocked(c) ==
    /\ pc[c] = "exec"
    /\ \/ /\ closed
          /\ loc' = [loc EXCEPT ![c] = [@ EXCEPT !.op = "InsertFailed"]]
          /\ UNCHANGED <<table, seq, faults>>
       \/ /\ ~closed
          /\ faults < MaxFaults
          /\ faults' = faults + 1
          /\ loc' = [loc EXCEPT ![c] = [@ EXCEPT !.op = "InsertFailed"]]
          /\ UNCHANGED <<table, seq>>
       \/ /\ ~closed
          /\ \E d \in Callers \ {c} : pc[d] = "rows"
          /\ loc' = [loc EXCEPT ![c] = [@ EXCEPT !.op = "InsertFailed"]]
          /\ UNCHANGED <<table, seq, faults>>
       \/ /\ ~closed
          /\ table' = table \cup {NewRow(loc[c].ts, loc[c].filesize)}
          /\ seq' = seq + 1
          /\ loc' = [loc EXCEPT ![c] = [@ EXCEPT !.op = "InsertDone", !.id = seq + 1]]
          /\ UNCHANGED faults
    /\ pc' = [pc EXCEPT ![c] = "insret"]
    /\ UNCHANGED <<closed, now, zone, ret, insLog, overlap, logs, result, resp>>

\* An insert that refuses a size that is not positive.
InsertExecPositive(c) ==
    /\ pc[c] = "exec"
    /\ \/ /\ closed \/ loc[c].filesize <= 0
          /\ loc' = [loc EXCEPT ![c] = [@ EXCEPT !.op = "InsertFailed"]]
          /\ UNCHANGED <<table, seq, faults>>
       \/ /\ ~closed
          /\ loc[c].filesize > 0
          /\ faults < MaxFaults
          /\ faults' = faults + 1
          /\ loc' = [loc EXCEPT ![c] = [@ EXCEPT !.op = "InsertFailed"]]
          /\ UNCHANGED <<table, seq>>
       \/ /\ ~closed
          /\ loc[c].filesize > 0
          /\ table' = table \cup {NewRow(loc[c].ts, loc[c].filesize)}
          /\ seq' = seq + 1
          /\ loc' = [loc EXCEPT ![c] = [@ EXCEPT !.op = "InsertDone", !.id = seq + 1]]
          /\ UNCHANGED faults
    /\ pc' = [pc EXCEPT ![c] = "insret"]
    /\ UNCHANGED <<closed, now, zone, ret, insLog, overlap, logs, result, resp>>

\* c.db.Exec(INSERT ...): one auto-commit statement.  It fails on a closed
\* sql.DB and on a storage failure, and then nothing is written.
InsertExec(c) ==
    /\ pc[c] = "exec"
    /\ \/ /\ closed
          /\ loc' = [loc EXCEPT ![c] = [@ EXCEPT !.op = "InsertFailed"]]
          /\ UNCHANGED <<table, seq, faults>>
       \/ /\ ~closed
          /\ faults < MaxFaults
          /\ faults' = faults + 1
          /\ loc' = [loc EXCEPT ![c] = [@ EXCEPT !.op = "InsertFailed"]]
          /\ UNCHANGED <<table, seq>>
       \/ /\ ~closed
          /\ table' = table \cup {NewRow(loc[c].ts, loc[c].filesize)}
          /\ seq' = seq + 1
          /\ loc' = [loc EXCEPT ![c] = [@ EXCEPT !.op = "InsertDone", !.id = seq + 1]]
          /\ UNCHANGED faults
    /\ pc' = [pc EXCEPT ![c] = "insret"]
    /\ UNCHANGED <<closed, now, zone, ret, insLog, overlap, logs, result, resp>>

\* InsertLogSize returns err, or nil, to the code that called it.
InsertReturned(c) ==
    /\ pc[c] = "insret"
    /\ pc' = [pc EXCEPT ![c] = "idle"]
    /\ ret' = [op |-> "InsertLogSize", err |-> (loc[c].op = "InsertFailed"),
               late |-> loc[c].late]
    /\ insLog' = IF loc[c].op = "InsertDone"
                 THEN Append(insLog, [id |-> loc[c].id, ts |-> loc[c].ts,
                                      filesize |-> loc[c].filesize])
                 ELSE insLog
    /\ loc' = [loc EXCEPT ![c] = NoLoc]
    /\ UNCHANGED <<table, seq, closed, now, zone, faults, overlap, logs, result>>

\* InsertLogSize returns to a direct caller of the store.
InsertReturn(c) == InsertReturned(c) /\ UNCHANGED resp

\* Ids of the inserts that have returned nil to their caller.
Acked == {insLog[i].id : i \in 1..Len(insLog)}

\* A read call's locals after db.Query returned its rows: the statement and
\* its arguments.
ReadLoc(op, start, end) == [op |-> op, start |-> start, end |-> end]

ReadRet(c, err, out) == [op |-> loc[c].op, err |-> err, out |-> out]

FailedRet(op) == [op |-> op, err |-> TRUE, out |-> <<>>]

\* c.db.Query(...): fails on a closed sql.DB and on a storage failure;
\* otherwise the caller holds the rows cursor, with l its locals: the
\* statement and its arguments.
QueryCalled(c, l) ==
    /\ pc[c] = "idle"
    /\ \/ /\ closed
          /\ ret' = FailedRet(l.op)
          /\ UNCHANGED <<pc, loc, faults>>
       \/ /\ ~closed
          /\ faults < MaxFaults
          /\ faults' = faults + 1
          /\ ret' = FailedRet(l.op)
          /\ UNCHANGED <<pc, loc>>
       \/ /\ ~closed
          /\ pc' = [pc EXCEPT ![c] = "rows"]
          /\ loc' = [loc EXCEPT ![c] = l]
          /\ UNCHANGED <<ret, faults>>
    /\ UNCHANGED <<table, seq, closed, now, zone, insLog, overlap, logs, result>>

\* A query that opens a connection again when the pool was closed.
QueryReopen(c, op, start, end) ==
    /\ pc[c] = "idle"
    /\ \/ /\ faults < MaxFaults
          /\ faults' = faults + 1
          /\ ret' = FailedRet(op)
          /\ UNCHANGED <<pc, loc>>
       \/ /\ pc' = [pc EXCEPT ![c] = "rows"]
          /\ loc' = [loc EXCEPT ![c] = ReadLoc(op, start, end)]
          /\ UNCHANGED <<ret, faults>>
    /\ UNCHANGED <<table, seq, closed, now, zone, insLog, overlap, logs, result, resp>>

\* The query of a direct caller of the store.
Query(c, op, start, end) ==
    QueryCalled(c, ReadLoc(op, start, end)) /\ UNCHANGED resp

\* GetAll up to the return of db.Query.
GetAllBegin(c) == Query(c, "GetAll", TimeNow, TimeNow)

\* QueryByTimeRange(start, end) up to the return of db.Query.
QueryByTimeRangeBegin(c, start, end) == Query(c, "QueryByTimeRange", start, end)

\* The rows the statement of caller c yields on the table as it is now.
ResultOn(T, l) ==
    IF l.op = "GetAll" THEN SelectAll(T) ELSE SelectRange(T, l.start, l.end)

\* for rows.Next() { rows.Scan(...); out = append(out, l) }; return out, nil
\* The statement reads one snapshot of the table.  A storage failure while
\* stepping ends rows.Next() with false after k rows; the loop then falls
\* through to "return out, nil" (rows.Err() is not consulted).  A failing
\* rows.Scan returns nil, err.
Iterated(c) ==
    /\ pc[c] = "rows"
    /\ LET rs == ResultOn(table, loc[c])
       IN \/ /\ ret' = ReadRet(c, FALSE, rs)
             /\ UNCHANGED faults
          \/ /\ faults < MaxFaults
             /\ faults' = faults + 1
             /\ \E k \in 0..Len(rs) :
                   ret' = ReadRet(c, FALSE, SubSeq(rs, 1, k))
          \/ /\ faults < MaxFaults
             /\ rs # <<>>
             /\ faults' = faults + 1
             /\ ret' = ReadRet(c, TRUE, <<>>)
    /\ pc' = [pc EXCEPT ![c] = "idle"]
    /\ loc' = [loc EXCEPT ![c] = NoLoc]
    /\ UNCHANGED <<table, seq, closed, now, zone, insLog, overlap, logs, result>>

\* The read returns to a direct caller of the store.
Iterate(c) == Iterated(c) /\ UNCHANGED resp

\* A Close that reports an error when the pool is already closed.
CloseStrict(c) ==
    /\ pc[c] = "idle"
    /\ closed' = TRUE
    /\ \/ /\ ret' = [op |-> "Close", err |-> closed, again |-> closed]
          /\ UNCHANGED faults
       \/ /\ ~closed
          /\ faults < MaxFaults
          /\ faults' = faults + 1
          /\ ret' = [op |-> "Close", err |-> TRUE, again |-> FALSE]
    /\ UNCHANGED <<table, seq, now, zone, pc, loc, insLog, overlap, logs, result, resp>>

\* Close: c.db.Close().  sql.DB.Close returns nil at once when the pool is
\* already closed; the first call may report a failure of the driver but
\* closes the pool all the same.
Close(c) ==
    /\ pc[c] = "idle"
    /\ closed' = TRUE
    /\ \/ /\ ret' = [op |-> "Close", err |-> FALSE, again |-> closed]
          /\ UNCHANGED faults
       \/ /\ ~closed
          /\ faults < MaxFaults
          /\ faults' = faults + 1
          /\ ret' = [op |-> "Close", err |-> TRUE, again |-> FALSE]
    /\ UNCHANGED <<table, seq, now, zone, pc, loc, insLog, overlap, logs, result, resp>>

\* The callers run concurrently, with no lock of their own.  Each inserts a
\* size that names it; the range queries issued here span the whole clock
\* range, in every pair of offsets.
SpanWindows == {w \in Times \X Times : w[1].inst = 0 /\ w[2].inst = MaxClock}

Next ==
    \/ Tick
    \/ \E c \in Callers : InsertBegin(c, c)
    \/ \E c \in Callers : InsertExec(c)
    \/ \E c \in Callers : InsertReturn(c)
    \/ \E c \in Callers : GetAllBegin(c)
    \/ \E c \in Callers, w \in SpanWindows : QueryByTimeRangeBegin(c, w[1], w[2])
    \/ \E c \in Callers : Iterate(c)
    \/ \E c \in Callers : Close(c)

Spec == Init /\ [][Next]_vars

\* One caller issues its calls one at a time, with every pair of arguments.
NextSeq ==
    \/ Tick
    \/ \E filesize \in Sizes : InsertBegin(1, filesize)
    \/ InsertExec(1)
    \/ InsertReturn(1)
    \/ GetAllBegin(1)
    \/ \E start \in Times, end \in Times : QueryByTimeRangeBegin(1, start, end)
    \/ Iterate(1)
    \/ Close(1)

SpecSeq == Init /\ [][NextSeq]_vars

\* ------------------------------------------------------- the API handlers

\* sendSuccessResponse: no WriteHeader call, so the status is 200.
sendSuccessResponse(data) == [status |-> 200, success |-> TRUE, data |-> data]

\* sendErrorResponse: http.StatusInternalServerError, no data.
sendErrorResponse == [status |-> 500, success |-> FALSE, data |-> <<>>]

\* A handler that answers an error when the store returned no rows.
HandleReadNoRows(r) ==
    IF r.err \/ r.out = <<>> THEN sendErrorResponse ELSE sendSuccessResponse(r.out)

\* The answer of a handler to what its store call returned (r). Every
\* handler of MakeAPIHandlers has this shape: if err != nil
\* { sendErrorResponse; return }; sendSuccessResponse(...).
HandleRead(r) == IF r.err THEN sendErrorResponse ELSE sendSuccessResponse(r.out)

\* ------------------------------------------- the analytics (package handlers)
\* calculateStats and aggregateByHour are pure functions of a
\* []database.LogSize.  The clock unit is read here as half an hour, so that
\* an offset may be a whole number of hours (0) or not (1).

\* Longest input of an analytics function.
MaxLogs == 3

\* Clock units in time.Hour.
HourUnits == 2

\* The largest int64.  TLC's integers are 32 bits wide: int64 is modelled as
\* a two's-complement type of 25 bits, which keeps the wrap-around of a sum
\* and lies above every size threshold of the package.
MaxInt64 == 16777215

MinInt64 == (0 - MaxInt64) - 1

\* x as the int64 an addition leaves.
Wrap(x) == ((x - MinInt64) % (2 * MaxInt64 + 2)) + MinInt64

\* The sizes an observation may carry.
Filesizes == Sizes \cup {MaxInt64}

\* The inputs: the slices of at most MaxLogs observations.
InputLogs ==
    {[i \in 1..Len(s) |-> [ID |-> i, Timestamp |-> s[i].Timestamp,
                           Filesize |-> s[i].Filesize]] :
        s \in UNION {[1..n -> [Timestamp : Times, Filesize : Filesizes]] : n \in 0..MaxLogs}}

\* The zero time.Time: January 1, year 1, 00:00 UTC, before every reading of
\* the clock.
ZeroTime == [inst |-> 0 - 1, off |-> 0]

\* A comparison of the wall-clock readings, whatever their offsets.
AfterWallClock(t, u) == t.inst + t.off > u.inst + u.off

\* t.After(u): compares the instants.
After(t, u) == t.inst > u.inst

\* t.Format(time.RFC3339): the wall-clock reading in the value's own offset,
\* followed by that offset.
FormatRFC3339(t) == <<t.inst + t.off, t.off>>

\* time.Parse(time.RFC3339, x)
ParseRFC3339(x) == [inst |-> x[1] - x[2], off |-> x[2]]

\* The summary of an empty input computed by the loop-free tail of
\* calculateStats: the zero time.Time formatted.
ZeroStatsFormatted ==
    [TotalRecords |-> 0, TotalSize |-> 0, AverageSize |-> [num |-> 0, den |-> 1],
     MinSize |-> 0, MaxSize |-> 0, LastUpdated |-> <<0 - 1, 0>>]

\* LogSizeStats{}: LastUpdated is the empty string.
ZeroStats ==
    [TotalRecords |-> 0, TotalSize |-> 0, AverageSize |-> [num |-> 0, den |-> 1],
     MinSize |-> 0, MaxSize |-> 0, LastUpdated |-> <<>>]

\* The loop of calculateStats from element i on; acc holds total, min, max
\* and lastUpdated.
RECURSIVE StatsLoop(_, _, _)
StatsLoop(in, i, acc) ==
    IF i > Len(in) THEN acc
    ELSE StatsLoop(in, i + 1,
            [total |-> Wrap(acc.total + in[i].Filesize),
             min |-> IF in[i].Filesize < acc.min THEN in[i].Filesize ELSE acc.min,
             max |-> IF in[i].Filesize > acc.max THEN in[i].Filesize ELSE acc.max,
             lastUpdated |-> IF After(in[i].Timestamp, acc.lastUpdated)
                             THEN in[i].Timestamp ELSE acc.lastUpdated])

\* A summary that takes the input to be sorted by size.
calculateStatsSorted(in) ==
    IF Len(in) = 0 THEN ZeroStats
    ELSE LET acc == StatsLoop(in, 1, [total |-> 0, min |-> in[1].Filesize,
                                      max |-> in[1].Filesize, lastUpdated |-> ZeroTime])
         IN [TotalRecords |-> Len(in),
             TotalSize |-> acc.total,
             AverageSize |-> [num |-> acc.total, den |-> Len(in)],
             MinSize |-> in[1].Filesize,
             MaxSize |-> in[Len(in)].Filesize,
             LastUpdated |-> FormatRFC3339(acc.lastUpdated)]

\* calculateStats.  AverageSize, float64(total) / float64(len(logs)), is kept
\* as the quotient of its two operands.
calculateStats(in) ==
    IF Len(in) = 0 THEN ZeroStats
    ELSE LET acc == StatsLoop(in, 1, [total |-> 0, min |-> in[1].Filesize,
                                      max |-> in[1].Filesize, lastUpdated |-> ZeroTime])
         IN [TotalRecords |-> Len(in),
             TotalSize |-> acc.total,
             AverageSize |-> [num |-> acc.total, den |-> Len(in)],
             MinSize |-> acc.min,
             MaxSize |-> acc.max,
             LastUpdated |-> FormatRFC3339(acc.lastUpdated)]

\* The analytics functions are applied to a slice the handler got from the
\* store; the store is left alone.
StoreUnchanged ==
    UNCHANGED <<table, seq, closed, now, zone, faults, pc, loc, ret, insLog, overlap, resp>>

InitAnalytics ==
    /\ table = {}
    /\ seq = 0
    /\ closed = FALSE
    /\ now = 0
    /\ zone = 0
    /\ faults = 0
    /\ pc = [c \in Callers |-> "idle"]
    /\ loc = [c \in Callers |-> NoLoc]
    /\ ret = NoRet
    /\ insLog = <<>>
    /\ overlap = FALSE
    /\ logs \in InputLogs
    /\ result = NoResult
    /\ resp = NoResp

\* stats := calculateStats(logs)
CalculateStats ==
    /\ result' = [fn |-> "calculateStats", out |-> calculateStats(logs)]
    /\ UNCHANGED logs
    /\ StoreUnchanged

\* t.Truncate(time.Hour): rounds the instant down to a multiple of an hour
\* since the zero time (an absolute duration, not the wall-clock reading) and
\* keeps the location.
TruncateHour(t) == [inst |-> t.inst - (t.inst % HourUnits), off |-> t.off]

\* hourKey := log.Timestamp.Truncate(time.Hour).Format("2006-01-02T15:04:05Z07:00")
HourKey(l) == FormatRFC3339(TruncateHour(l.Timestamp))

\* The first loop of aggregateByHour from element i on.
RECURSIVE HourLoop(_, _, _)
HourLoop(in, i, hourMap) ==
    IF i > Len(in) THEN hourMap
    ELSE LET hourKey == HourKey(in[i])
             data == IF hourKey \in DOMAIN hourMap THEN hourMap[hourKey]
                     ELSE [Count |-> 0, TotalSize |-> 0]
             next == [Count |-> data.Count + 1,
                      TotalSize |-> Wrap(data.TotalSize + in[i].Filesize)]
         IN HourLoop(in, i + 1,
                     [k \in DOMAIN hourMap \cup {hourKey} |->
                         IF k = hourKey THEN next ELSE hourMap[k]])

\* One TimeSeriesPoint per key of the map.
TimeSeriesPoints(hourMap) ==
    {[Timestamp |-> k, Count |-> hourMap[k].Count, TotalSize |-> hourMap[k].TotalSize] :
        k \in DOMAIN hourMap}

\* for timestamp, data := range hourMap: the order of a map iteration is
\* unspecified.
Orderings(S) == {s \in [1..Cardinality(S) -> S] : \A x \in S : \E i \in DOMAIN s : s[i] = x}

\* aggregateByHour: the slices it may return.
aggregateByHour(in) == Orderings(TimeSeriesPoints(HourLoop(in, 1, <<>>)))

\* timeSeries := aggregateByHour(logs)
AggregateByHour ==
    /\ \E out \in aggregateByHour(logs) :
          result' = [fn |-> "aggregateByHour", out |-> out]
    /\ UNCHANGED logs
    /\ StoreUnchanged

NextAnalytics ==
    \/ CalculateStats
    \/ AggregateByHour

SpecAnalytics == InitAnalytics /\ [][NextAnalytics]_vars

\* ------------------------------------------------- calculateSizeBreakdown

\* ranges: the six size ranges, Min inclusive, Max exclusive.  The last Max
\* is the largest int64.
ranges ==
    << [Name |-> "< 1KB", Min |-> 0, Max |-> 1024],
       [Name |-> "1KB - 10KB", Min |-> 1024, Max |-> 10 * 1024],
       [Name |-> "10KB - 100KB", Min |-> 10 * 1024, Max |-> 100 * 1024],
       [Name |-> "100KB - 1MB", Min |-> 100 * 1024, Max |-> 1024 * 1024],
       [Name |-> "1MB - 10MB", Min |-> 1024 * 1024, Max |-> 10 * 1024 * 1024],
       [Name |-> "> 10MB", Min |-> 10 * 1024 * 1024, Max |-> MaxInt64] >>

\* The sizes at the ends of the ranges, and the two ends of int64 sizes.
BoundarySizes ==
    {0 - 1, MaxInt64 - 1, MaxInt64}
    \cup {ranges[i].Min : i \in 1..Len(ranges)}
    \cup {ranges[i].Min - 1 : i \in 2..Len(ranges)}

\* The inputs of calculateSizeBreakdown, which reads the sizes only: the
\* Timestamp is the zero time of a LogSize literal.
BreakdownLogs ==
    {[i \in 1..Len(s) |-> [ID |-> i, Timestamp |-> ZeroTime, Filesize |-> s[i]]] :
        s \in UNION {[1..n -> BoundarySizes] : n \in 0..MaxLogs}}

\* log.Filesize >= r.Min && log.Filesize < r.Max
InRangeOf(filesize, r) == filesize >= r.Min /\ filesize < r.Max

\* The inner loop with its break: the index of the first range that holds
\* the size, 0 when the loop ends without a match.
FirstRange(filesize) ==
    IF \E i \in 1..Len(ranges) : InRangeOf(filesize, ranges[i])
    THEN CHOOSE i \in 1..Len(ranges) :
            /\ InRangeOf(filesize, ranges[i])
            /\ \A k \in 1..(i - 1) : ~InRangeOf(filesize, ranges[k])
    ELSE 0

\* The outer loop from element j on.
RECURSIVE CountLoop(_, _, _)
CountLoop(in, j, rangeCounts) ==
    IF j > Len(in) THEN rangeCounts
    ELSE CountLoop(in, j + 1,
            [i \in 1..Len(ranges) |->
                IF i = FirstRange(in[j].Filesize) THEN rangeCounts[i] + 1
                ELSE rangeCounts[i]])

\* percentage := 0.0; if total > 0 { float64(count) / float64(total) * 100 },
\* kept as a quotient.
PercentageOf(count, total) ==
    IF total > 0 THEN [num |-> count * 100, den |-> total] ELSE [num |-> 0, den |-> 1]

\* A breakdown that emits the ranges that hold an observation only.
calculateSizeBreakdownNonEmpty(in) ==
    LET rangeCounts == CountLoop(in, 1, [i \in 1..Len(ranges) |-> 0])
        all == [i \in 1..Len(ranges) |->
                   [Range |-> ranges[i].Name, Count |-> rangeCounts[i],
                    Percentage |-> PercentageOf(rangeCounts[i], Len(in))]]
    IN SelectSeq(all, LAMBDA b : b.Count > 0)

\* calculateSizeBreakdown
calculateSizeBreakdown(in) ==
    LET rangeCounts == CountLoop(in, 1, [i \in 1..Len(ranges) |-> 0])
    IN [i \in 1..Len(ranges) |->
           [Range |-> ranges[i].Name, Count |-> rangeCounts[i],
            Percentage |-> PercentageOf(rangeCounts[i], Len(in))]]

InitBreakdown ==
    /\ table = {}
    /\ seq = 0
    /\ closed = FALSE
    /\ now = 0
    /\ zone = 0
    /\ faults = 0
    /\ pc = [c \in Callers |-> "idle"]
    /\ loc = [c \in Callers |-> NoLoc]
    /\ ret = NoRet
    /\ insLog = <<>>
    /\ overlap = FALSE
    /\ logs \in BreakdownLogs
    /\ result = NoResult
    /\ resp = NoResp

\* breakdown := calculateSizeBreakdown(logs)
CalculateSizeBreakdown ==
    /\ result' = [fn |-> "calculateSizeBreakdown", out |-> calculateSizeBreakdown(logs)]
    /\ UNCHANGED logs
    /\ StoreUnchanged

NextBreakdown == CalculateSizeBreakdown

SpecBreakdown == InitBreakdown /\ [][NextBreakdown]_vars

\* ------------------------------------------------ the ingestion handler

\* Request methods, and lengths of a request body.
Methods == {"GET", "POST"}
MaxBody == 2
BodyLens == 0..MaxBody

\* What makeIngestionHandler writes: w.WriteHeader(status); w.Write(text).
IngestResp(method, body, status, text) ==
    [path |-> "/ingest", method |-> method, body |-> body, status |-> status,
     text |-> text]

\* A handler that stores the size of whatever it read, an empty body
\* included.
IngestBeginAny(c, method, body, readErr) ==
    /\ pc[c] = "idle"
    /\ \/ /\ method # "POST"
          /\ resp' = IngestResp(method, body, 405, "Method not allowed")
          /\ UNCHANGED <<table, seq, closed, now, zone, faults, pc, loc, ret,
                         insLog, overlap, logs, result>>
       \/ /\ method = "POST"
          /\ readErr
          /\ resp' = IngestResp(method, body, 400, "Failed to read request body")
          /\ UNCHANGED <<table, seq, closed, now, zone, faults, pc, loc, ret,
                         insLog, overlap, logs, result>>
       \/ /\ method = "POST"
          /\ ~readErr
          /\ InsertBegin(c, body)

\* makeIngestionHandler up to the call of db.InsertLogSize: the method
\* check, io.ReadAll (readErr: it failed), bodySize := int64(len(body)), the
\* check of bodySize, and the start of InsertLogSize(bodySize).
IngestBegin(c, method, body, readErr) ==
    /\ pc[c] = "idle"
    /\ \/ /\ method # "POST"
          /\ resp' = IngestResp(method, body, 405, "Method not allowed")
          /\ UNCHANGED <<table, seq, closed, now, zone, faults, pc, loc, ret,
                         insLog, overlap, logs, result>>
       \/ /\ method = "POST"
          /\ readErr
          /\ resp' = IngestResp(method, body, 400, "Failed to read request body")
          /\ UNCHANGED <<table, seq, closed, now, zone, faults, pc, loc, ret,
                         insLog, overlap, logs, result>>
       \/ /\ method = "POST"
          /\ ~readErr
          /\ body <= 0
          /\ resp' = IngestResp(method, body, 400, "Request body cannot be empty")
          /\ UNCHANGED <<table, seq, closed, now, zone, faults, pc, loc, ret,
                         insLog, overlap, logs, result>>
       \/ /\ method = "POST"
          /\ ~readErr
          /\ body > 0
          /\ InsertBegin(c, body)

\* A handler that writes 200 whatever InsertLogSize returned.
IngestRespondOK(c) ==
    /\ InsertReturned(c)
    /\ resp' = IngestResp("POST", loc[c].filesize, 200, "OK")

\* InsertLogSize returns to the handler, which answers 500 on an error and
\* 200 "OK" otherwise.
IngestRespond(c) ==
    /\ InsertReturned(c)
    /\ resp' = IF loc[c].op = "InsertFailed"
               THEN IngestResp("POST", loc[c].filesize, 500, "Failed to write log size")
               ELSE IngestResp("POST", loc[c].filesize, 200, "OK")

\* What a handler of MakeAPIHandlers writes: the status and the envelope.
APIResp(path, r) ==
    [path |-> path, status |-> r.status, success |-> r.success, data |-> r.data]

\* A handler's locals while it reads the store: the statement, its
\* arguments and the path the handler serves.
HandlerLoc(path, op, start, end) ==
    [op |-> op, start |-> start, end |-> end, path |-> path]

\* A handler calls the store: a failing db.Query is answered at once with
\* sendErrorResponse.
HandlerQuery(c, l) ==
    /\ QueryCalled(c, l)
    /\ resp' = IF pc'[c] = "rows" THEN resp ELSE APIResp(l.path, sendErrorResponse)

\* /api/stats/summary: db.GetAll() up to the return of db.Query.
SummaryBegin(c) ==
    HandlerQuery(c, HandlerLoc("/api/stats/summary", "GetAll", TimeNow, TimeNow))

\* /api/stats/summary: GetAll returns; an error is answered with
\* sendErrorResponse, the logs with sendSuccessResponse(calculateStats(logs)).
SummaryRespond(c) ==
    /\ pc[c] = "rows"
    /\ loc[c].path = "/api/stats/summary"
    /\ Iterated(c)
    /\ resp' = APIResp(loc[c].path,
                       IF ret'.err THEN sendErrorResponse
                       ELSE sendSuccessResponse(calculateStats(ret'.out)))

\* The ingestion server and the summary handler serve concurrent requests
\* on one open store.
NextIngest ==
    \/ Tick
    \/ \E c \in Callers, method \in Methods, body \in BodyLens, readErr \in BOOLEAN :
          IngestBegin(c, method, body, readErr)
    \/ \E c \in Callers : InsertExec(c)
    \/ \E c \in Callers : IngestRespond(c)
    \/ \E c \in Callers : SummaryBegin(c)
    \/ \E c \in Callers : SummaryRespond(c)

SpecIngest == Init /\ [][NextIngest]_vars

\* ------------------------------------------------ the log handlers

\* Values of a query parameter that should hold a time: the empty string
\* (the parameter is missing), a date with no time of day and no offset, and
\* the RFC3339 text of a time.
EmptyString == <<>>
DateOnly == <<0>>
TimeParams == {EmptyString, DateOnly} \cup {FormatRFC3339(t) : t \in Times}

\* time.Parse(time.RFC3339, x) returns no error.
ParsesRFC3339(x) == Len(x) = 2

\* A handler that reads a missing end parameter as the current time.
RangeBeginOpenEnd(c, startStr, endStr) ==
    /\ pc[c] = "idle"
    /\ IF startStr = EmptyString \/ ~ParsesRFC3339(startStr)
          \/ (endStr # EmptyString /\ ~ParsesRFC3339(endStr))
       THEN /\ resp' = APIResp("/api/logs/range", sendErrorResponse)
            /\ UNCHANGED <<table, seq, closed, now, zone, faults, pc, loc, ret,
                           insLog, overlap, logs, result>>
       ELSE HandlerQuery(c, HandlerLoc("/api/logs/range", "QueryByTimeRange",
                                       ParseRFC3339(startStr),
                                       IF endStr = EmptyString THEN TimeNow
                                       ELSE ParseRFC3339(endStr)))

\* /api/logs/range up to the return of db.Query inside QueryByTimeRange: a
\* missing or unparsable start or end is answered with sendErrorResponse
\* before the store is called.
RangeBegin(c, startStr, endStr) ==
    /\ pc[c] = "idle"
    /\ IF startStr = EmptyString \/ endStr = EmptyString
          \/ ~ParsesRFC3339(startStr) \/ ~ParsesRFC3339(endStr)
       THEN /\ resp' = APIResp("/api/logs/range", sendErrorResponse)
            /\ UNCHANGED <<table, seq, closed, now, zone, faults, pc, loc, ret,
                           insLog, overlap, logs, result>>
       ELSE HandlerQuery(c, HandlerLoc("/api/logs/range", "QueryByTimeRange",
                                       ParseRFC3339(startStr), ParseRFC3339(endStr)))

\* /api/logs/range: QueryByTimeRange returns; an error is answered with
\* sendErrorResponse, the logs with sendSuccessResponse(logs).
RangeRespond(c) ==
    /\ pc[c] = "rows"
    /\ loc[c].path = "/api/logs/range"
    /\ Iterated(c)
    /\ resp' = APIResp(loc[c].path, HandleRead(ret'))

\* The limit parameter of a request: missing, or a number.
NoLimit == 0 - 1
Limits == {NoLimit, 1}

\* 24 * time.Hour
DayUnits == 24 * HourUnits

\* /api/logs/recent up to the return of db.Query: end := time.Now(),
\* start := end.Add(-24 * time.Hour), QueryByTimeRange(start, end).  The
\* request's limit parameter is kept with the locals; the handler does not
\* read it.
RecentBegin(c, limit) ==
    HandlerQuery(c, [op |-> "QueryByTimeRange",
                     start |-> [inst |-> now - DayUnits, off |-> zone],
                     end |-> TimeNow,
                     path |-> "/api/logs/recent", limit |-> limit])

\* /api/logs/recent: QueryByTimeRange returns; an error is answered with
\* sendErrorResponse, the logs with sendSuccessResponse(logs).
RecentRespond(c) ==
    /\ pc[c] = "rows"
    /\ loc[c].path = "/api/logs/recent"
    /\ Iterated(c)
    /\ resp' = APIResp(loc[c].path, HandleRead(ret'))

\* The log handlers serve one request at a time on a store that receives
\* observations and that its owner may close.
NextApi ==
    \/ Tick
    \/ \E filesize \in 1..MaxSize : InsertBegin(1, filesize)
    \/ InsertExec(1)
    \/ InsertReturn(1)
    \/ \E startStr \in TimeParams, endStr \in TimeParams : RangeBegin(1, startStr, endStr)
    \/ RangeRespond(1)
    \/ \E limit \in Limits : RecentBegin(1, limit)
    \/ RecentRespond(1)
    \/ Close(1)

SpecApi == Init /\ [][NextApi]_vars

\* ============================================================ properties

\* The step in which caller c's read returns after iterating its rows, no
\* storage failure having struck the iteration.
ReadReturns(c, op) ==
    /\ pc[c] = "rows"
    /\ pc'[c] = "idle"
    /\ loc[c].op = op
    /\ faults' = faults

IdsIncrease(out) == \A i, j \in 1..Len(out) : i < j => out[i].ID < out[j].ID

SameObservations(out, log) ==
    /\ Len(out) = Len(log)
    /\ \A i \in 1..Len(out) :
          /\ out[i].Timestamp = log[i].ts
          /\ out[i].Filesize = log[i].filesize

\* C1: when the InsertLogSize calls were issued one at a time (no two ever in
\* flight together, none in flight now), a GetAll returns exactly the
\* observations of the calls that returned nil, in the order of those calls,
\* with strictly increasing ids.
C1_InsertionOrder ==
    [][\A c \in Callers :
          (ReadReturns(c, "GetAll") /\ ~overlap /\ InsertInFlight = {})
             => /\ ~ret'.err
                /\ SameObservations(ret'.out, insLog)
                /\ IdsIncrease(ret'.out)]_vars

\* Two callers have inserted, one after the other, and GetAll has returned
\* both observations.
C1_Witness ==
    /\ ret.op = "GetAll"
    /\ ~ret.err
    /\ ~overlap
    /\ InsertInFlight = {}
    /\ Len(ret.out) = 2
    /\ Len(insLog) = 2
    /\ ret.out[1].Filesize # ret.out[2].Filesize
    /\ ret.out[1].Timestamp # ret.out[2].Timestamp

\* The observations a window [start, end) covers, as instants.
Covered(T, start, end) ==
    {ScanRow(r) : r \in {x \in T : /\ start.inst <= ScanTime(x.timestamp).inst
                                   /\ ScanTime(x.timestamp).inst < end.inst}}

Range(out) == {out[i] : i \in 1..Len(out)}

TimeOrdered(out) ==
    \A i, j \in 1..Len(out) : i < j => out[i].Timestamp.inst <= out[j].Timestamp.inst

\* C2: for start < end, QueryByTimeRange(start, end) returns exactly the
\* stored observations whose timestamp t satisfies start <= t < end, in
\* non-decreasing order of timestamp.
C2_HalfOpenRange ==
    [][\A c \in Callers :
          (ReadReturns(c, "QueryByTimeRange") /\ loc[c].start.inst < loc[c].end.inst)
             => /\ ~ret'.err
                /\ Range(ret'.out) = Covered(table, loc[c].start, loc[c].end)
                /\ Len(ret'.out) = Cardinality(Covered(table, loc[c].start, loc[c].end))
                /\ TimeOrdered(ret'.out)]_vars

CountOf(out, filesize) == Cardinality({i \in 1..Len(out) : out[i].Filesize = filesize})

CallsOf(log, filesize) == Cardinality({i \in 1..Len(log) : log[i].filesize = filesize})

\* C3: with a healthy, open store, every InsertLogSize of the concurrent
\* callers returns nil, and once all of them have returned GetAll returns one
\* observation per call (as many per caller as it made calls), with pairwise
\* distinct ids.
C3_ConcurrentInserts ==
    [][/\ (faults' = 0 /\ ~closed' /\ ret'.op = "InsertLogSize") => ~ret'.err
       /\ \A c \in Callers :
             (ReadReturns(c, "GetAll") /\ faults = 0 /\ ~closed /\ InsertInFlight = {})
                => /\ ~ret'.err
                   /\ Len(ret'.out) = Len(insLog)
                   /\ \A d \in Callers : CountOf(ret'.out, d) = CallsOf(insLog, d)
                   /\ \A i, j \in 1..Len(ret'.out) :
                         i # j => ret'.out[i].ID # ret'.out[j].ID]_vars

\* Two callers had their inserts in flight together, both returned, and
\* GetAll has returned both observations.
C3_Witness ==
    /\ overlap
    /\ faults = 0
    /\ ~closed
    /\ InsertInFlight = {}
    /\ ret.op = "GetAll"
    /\ ~ret.err
    /\ Len(ret.out) = 2
    /\ Len(insLog) = 2
    /\ ret.out[1].Filesize # ret.out[2].Filesize

\* The steps in which caller c's db.Exec, and its InsertLogSize, return.
ExecReturns(c) == pc[c] = "exec" /\ pc'[c] = "insret"

InsertReturns(c) == pc[c] = "insret" /\ pc'[c] = "idle"

\* C4: InsertLogSize is atomic.  A call that returns nil has added exactly
\* one observation, with a fresh id, the given size and the timestamp the
\* store read from its clock; a call that returns an error has added nothing;
\* nothing else adds to or changes the stored observations.
C4_InsertAtomic ==
    [][/\ \A c \in Callers :
             ExecReturns(c) =>
                \/ /\ loc'[c].op = "InsertFailed"
                   /\ table' = table
                \/ /\ loc'[c].op = "InsertDone"
                   /\ \E r \in table' \ table :
                         /\ table' = table \cup {r}
                         /\ r.id \notin Ids(table)
                         /\ r.filesize = loc[c].filesize
                         /\ ScanTime(r.timestamp) = loc[c].ts
                         /\ loc[c].ts.off = zone
                         /\ loc[c].ts.inst <= now
       /\ \A c \in Callers :
             InsertReturns(c) => (ret'.err <=> loc[c].op = "InsertFailed")
       /\ (\A c \in Callers : ~ExecReturns(c)) => table' = table]_vars

\* An InsertLogSize has failed on a storage failure after another one had
\* stored its observation.
C4_Witness ==
    /\ ret.op = "InsertLogSize"
    /\ ret.err
    /\ ~ret.late
    /\ ~closed
    /\ faults = 1
    /\ Cardinality(table) = 1

\* The inserts that have returned nil and whose timestamp a window covers.
AckedCovered(start, end) ==
    {i \in 1..Len(insLog) : start.inst <= insLog[i].ts.inst /\ insLog[i].ts.inst < end.inst}

\* C5: once an InsertLogSize has returned nil, every GetAll made afterwards
\* contains its observation, and so does every QueryByTimeRange made
\* afterwards whose window covers its timestamp.
C5_ReadYourWrites ==
    [][\A c \in Callers :
          /\ ReadReturns(c, "GetAll")
                => \A i \in 1..Len(insLog) :
                      \E k \in 1..Len(ret'.out) : ret'.out[k].ID = insLog[i].id
          /\ ReadReturns(c, "QueryByTimeRange")
                => \A i \in AckedCovered(loc[c].start, loc[c].end) :
                      \E k \in 1..Len(ret'.out) : ret'.out[k].ID = insLog[i].id]_vars

\* The calls whose row has been committed: those that returned nil and those
\* whose db.Exec has returned nil.
Committed ==
    {[id |-> insLog[i].id, ts |-> insLog[i].ts, filesize |-> insLog[i].filesize] :
        i \in 1..Len(insLog)}
    \cup {[id |-> loc[c].id, ts |-> loc[c].ts, filesize |-> loc[c].filesize] :
             c \in {d \in Callers : pc[d] = "insret" /\ loc[d].op = "InsertDone"}}

\* C6: a GetAll or QueryByTimeRange that runs while InsertLogSize calls are in
\* flight returns no error, and every observation it returns is the complete
\* (id, timestamp, size) of one committed insert, each at most once; a GetAll
\* holds the observations of all inserts up to some id, among them every
\* insert that has returned.
C6_NoTornRead ==
    [][\A c \in Callers, op \in {"GetAll", "QueryByTimeRange"} :
          ReadReturns(c, op)
             => /\ ~ret'.err
                /\ \A k \in 1..Len(ret'.out) :
                      \E e \in Committed :
                         /\ ret'.out[k].ID = e.id
                         /\ ret'.out[k].Timestamp = e.ts
                         /\ ret'.out[k].Filesize = e.filesize
                /\ \A j, k \in 1..Len(ret'.out) : j # k => ret'.out[j].ID # ret'.out[k].ID
                /\ op = "GetAll"
                      => /\ \A k \in 1..Len(ret'.out) : ret'.out[k].ID = k
                         /\ Acked \subseteq 1..Len(ret'.out)]_vars

\* A GetAll has returned the observation of an insert that is committed but
\* has not yet returned to its caller.
C6_Witness ==
    /\ ret.op = "GetAll"
    /\ ~ret.err
    /\ \E c \in Callers :
          /\ pc[c] = "insret"
          /\ loc[c].op = "InsertDone"
          /\ \E k \in 1..Len(ret.out) :
                /\ ret.out[k].ID = loc[c].id
                /\ ret.out[k].Timestamp = loc[c].ts
                /\ ret.out[k].Timestamp.off # 0

UniqueIds(T) == \A r, s \in T : r.id = s.id => r = s

Reads == {"GetAll", "QueryByTimeRange"}

\* C7: the store is append-only.  Whatever call runs, every stored
\* observation stays stored with the same id, timestamp and size, no id
\* belongs to two observations, and each observation the last read returned
\* is still stored as returned.
C7_AppendOnly ==
    [][/\ table \subseteq table'
       /\ UniqueIds(table')
       /\ (ret'.op \in Reads /\ ~ret'.err)
             => \A k \in 1..Len(ret'.out) : \E r \in table' : ScanRow(r) = ret'.out[k]]_vars

\* A read returned one observation; another was inserted and the store was
\* closed afterwards.
C7_Witness ==
    /\ ret.op \in Reads
    /\ ~ret.err
    /\ Len(ret.out) = 1
    /\ Cardinality(table) = 2
    /\ closed

\* C8: a Close of an already closed controller returns nil and leaves the
\* stored observations, and the closed state, as they were.
C8_CloseIdempotent ==
    [][(ret'.op = "Close" /\ ret'.again /\ ret' # ret)
          => (~ret'.err /\ table' = table /\ closed /\ closed')]_vars

\* Close has been called on a closed controller that holds an observation,
\* and returned nil.
C8_Witness ==
    /\ ret.op = "Close"
    /\ ret.again
    /\ ~ret.err
    /\ closed
    /\ table # {}

\* C9: once Close has returned, an InsertLogSize, GetAll or QueryByTimeRange
\* made on the controller returns an error (a read returns no rows with it),
\* and the stored observations stay those present at the Close.
C9_ClosedFails ==
    [][closed
          => /\ closed'
             /\ table' = table
             /\ \A c \in Callers : ~(pc[c] = "idle" /\ pc'[c] = "rows")
             /\ (pc' = pc /\ ret' # ret /\ ret'.op \in Reads)
                   => (ret'.err /\ ret'.out = <<>>)
             /\ \A c \in Callers : (InsertReturns(c) /\ loc[c].late) => ret'.err]_vars

\* An InsertLogSize made after Close has returned an error, the store
\* holding an observation and no storage failure having occurred.
C9_Witness ==
    /\ closed
    /\ ret.op = "InsertLogSize"
    /\ ret.late
    /\ ret.err
    /\ faults = 0
    /\ table # {}

\* C10: for start >= end, QueryByTimeRange(start, end) returns an empty
\* sequence and a nil error.
C10_EmptyRange ==
    [][\A c \in Callers :
          (ReadReturns(c, "QueryByTimeRange") /\ loc[c].start.inst >= loc[c].end.inst)
             => (~ret'.err /\ ret'.out = <<>>)]_vars

\* The step in which caller c's read returns from its rows loop.
LoopReturns(c) == pc[c] = "rows" /\ pc'[c] = "idle"

\* C11: every storage failure during a GetAll or QueryByTimeRange, one that
\* strikes while the rows are iterated included, is returned as a non-nil
\* error: a read that returns nil returns the whole result of its statement,
\* never a truncated one.
C11_ReadFailureReported ==
    [][/\ \A c \in Callers :
             LoopReturns(c)
                => /\ faults' # faults => ret'.err
                   /\ ~ret'.err => ret'.out = ResultOn(table, loc[c])
       /\ (pc' = pc /\ ret' # ret /\ ret'.op \in Reads /\ faults' # faults)
             => ret'.err]_vars

\* The stored rows the statement of a read selects.
Matches(T, l) ==
    IF l.op = "GetAll" THEN T ELSE {r \in T : InRange(r, l.start, l.end)}

\* C12: a read that matches no observation is a success.  GetAll and
\* QueryByTimeRange return an empty sequence with a nil error, and the API
\* handler built on the read answers HTTP 200 with success = true, never 500
\* or success = false.
C12_EmptyReadSucceeds ==
    [][\A c \in Callers, op \in Reads :
          (ReadReturns(c, op) /\ Matches(table, loc[c]) = {})
             => /\ ~ret'.err
                /\ ret'.out = <<>>
                /\ HandleRead(ret').status = 200
                /\ HandleRead(ret').success]_vars

\* A QueryByTimeRange whose window lies after the only stored observation
\* has returned no rows and no error, and its handler answers 200.
C12_Witness ==
    /\ ret.op = "QueryByTimeRange"
    /\ ~ret.err
    /\ ret.out = <<>>
    /\ table # {}
    /\ ~closed
    /\ faults = 0
    /\ HandleRead(ret).status = 200

\* C13: InsertLogSize rejects a negative size with an error and stores
\* nothing, so every stored observation has a size >= 0.
C13_NoNegativeSize ==
    [][/\ \A c \in Callers :
             (ExecReturns(c) /\ loc[c].filesize < 0)
                => (loc'[c].op = "InsertFailed" /\ table' = table)
       /\ \A r \in table' : r.filesize >= 0]_vars

InsertInvoked(c) == pc[c] = "idle" /\ pc'[c] = "exec"

\* C15: the timestamp of a stored observation is chosen by the store and is
\* the clock value at the moment its write is committed: not a reading
\* taken earlier, before the write was serialized behind other writers.
C15_TimestampAtAcceptance ==
    [][\A c \in Callers :
          (ExecReturns(c) /\ loc'[c].op = "InsertDone")
             => \E r \in table' \ table :
                   ScanTime(r.timestamp) = [inst |-> now, off |-> zone]]_vars

\* C15, amended: the timestamp of a stored observation is chosen by the
\* store (the caller passes none): it is the clock reading InsertLogSize
\* takes when it is invoked, in the local offset.  The row committed later
\* carries that reading, which is no later than the clock at the commit and
\* at the return of the call, and may be earlier than both.
C15_TimestampAtCall ==
    [][\A c \in Callers :
          /\ InsertInvoked(c) => loc'[c].ts = [inst |-> now, off |-> zone]
          /\ (ExecReturns(c) /\ loc'[c].op = "InsertDone")
                => /\ \E r \in table' \ table : ScanTime(r.timestamp) = loc[c].ts
                   /\ loc[c].ts.inst <= now
          /\ InsertReturns(c) => loc[c].ts.inst <= now]_vars

\* Two writers overlapped: the one that read the clock first committed
\* second, so the row with the larger id carries the earlier timestamp,
\* one that precedes the clock at its commit.
C15_Witness ==
    /\ overlap
    /\ \E r, s \in table :
          /\ r.id < s.id
          /\ ScanTime(s.timestamp).inst < ScanTime(r.timestamp).inst
          /\ ScanTime(s.timestamp).inst < now

\* The orders of a slice.
Orders(in) ==
    {[i \in 1..Len(in) |-> in[p[i]]] :
        p \in {q \in [1..Len(in) -> 1..Len(in)] :
                  \A i, j \in 1..Len(in) : q[i] = q[j] => i = j}}

\* The sum of the sizes, as an unbounded integer.
RECURSIVE SumSizes(_)
SumSizes(in) == IF in = <<>> THEN 0 ELSE in[1].Filesize + SumSizes(Tail(in))

SizesOf(in) == {in[i].Filesize : i \in 1..Len(in)}

\* What a summary says of counts and sizes, given the total it should hold.
SummaryOf(s, in, total) ==
    /\ s.TotalRecords = Len(in)
    /\ s.TotalSize = total
    /\ s.MinSize \in SizesOf(in)
    /\ \A x \in SizesOf(in) : s.MinSize <= x
    /\ s.MaxSize \in SizesOf(in)
    /\ \A x \in SizesOf(in) : x <= s.MaxSize
    /\ s.AverageSize.den # 0
    /\ s.AverageSize.num * s.TotalRecords = s.TotalSize * s.AverageSize.den

C17_EmptySummary ==
    (result.fn = "calculateStats" /\ logs = <<>>)
       => /\ result.out.TotalRecords = 0
          /\ result.out.TotalSize = 0
          /\ result.out.AverageSize.num = 0
          /\ result.out.AverageSize.den # 0
          /\ result.out.MinSize = 0
          /\ result.out.MaxSize = 0
          /\ result.out.LastUpdated = <<>>

\* calculateStats has returned for the empty input.
C17_Witness ==
    /\ result.fn = "calculateStats"
    /\ logs = <<>>
    /\ result.out.TotalRecords = 0

InstantsOf(in) == {in[i].Timestamp.inst : i \in 1..Len(in)}

\* The offsets carried by the observations at instant t.
OffsetsAt(in, t) == {in[i].Timestamp.off : i \in {j \in 1..Len(in) : in[j].Timestamp.inst = t}}

ClockHourKey(l) ==
    LET wall == l.Timestamp.inst + l.Timestamp.off
    IN <<wall - (wall % HourUnits), l.Timestamp.off>>

RECURSIVE SumOver(_, _)
SumOver(in, J) ==
    IF J = {} THEN 0
    ELSE LET j == CHOOSE x \in J : TRUE
         IN in[j].Filesize + SumOver(in, J \ {j})

\* out is the group-by of in on key(observation), the bucket totals
\* being total(sum of the sizes).
GroupBy(out, in, key(_), total(_)) ==
    /\ \A i, j \in 1..Len(out) : i # j => out[i].Timestamp # out[j].Timestamp
    /\ \A i \in 1..Len(out) :
          LET members == {j \in 1..Len(in) : key(in[j]) = out[i].Timestamp}
          IN /\ out[i].Count = Cardinality(members)
             /\ out[i].Count > 0
             /\ out[i].TotalSize = total(SumOver(in, members))
    /\ \A j \in 1..Len(in) :
          Cardinality({i \in 1..Len(out) : out[i].Timestamp = key(in[j])}) = 1

SameSum(x) == x

\* C19: aggregateByHour is a group-by on the truncated hour.  The buckets
\* have pairwise distinct hour keys, each bucket's Count and TotalSize are
\* the number and the size sum of the observations whose truncated hour is
\* its key, no bucket has Count 0, every observation is counted in exactly
\* one bucket, and every permutation of the input gives the same set of
\* buckets.
C19_GroupByHour ==
    result.fn = "aggregateByHour"
       => /\ GroupBy(result.out, logs, ClockHourKey, SameSum)
          /\ \A p \in Orders(logs) :
                \A o \in aggregateByHour(p) : Range(o) = Range(result.out)

\* C20: the bucket key of an observation is the start of the clock hour that
\* contains its timestamp in the offset the timestamp carries (minutes and
\* seconds zero in that offset, the offset kept), whatever the offset.
C20_KeyIsClockHour ==
    result.fn = "aggregateByHour"
       => \A j \in 1..Len(logs) :
             /\ HourKey(logs[j]) = ClockHourKey(logs[j])
             /\ HourKey(logs[j])[1] % HourUnits = 0
             /\ HourKey(logs[j])[2] = logs[j].Timestamp.off
             /\ \E i \in 1..Len(result.out) : result.out[i].Timestamp = HourKey(logs[j])

\* The six ranges as the specification gives them: lower bound inclusive,
\* upper bound exclusive, the last one unbounded above.
InSpecRange(filesize, i) ==
    /\ filesize >= ranges[i].Min
    /\ i < Len(ranges) => filesize < ranges[i + 1].Min

\* C21: calculateSizeBreakdown counts every observation with
\* 0 <= size <= max int64 in exactly one bucket, the first of [0,1024),
\* [1024,10240), [10240,102400), [102400,1048576), [1048576,10485760),
\* [10485760,+infinity) that contains its size, so the six counts sum to the
\* number of observations.
C21_EverySizeCounted ==
    result.fn = "calculateSizeBreakdown"
       => /\ \A i \in 1..Len(ranges) :
                result.out[i].Count =
                   Cardinality({j \in 1..Len(logs) : InSpecRange(logs[j].Filesize, i)})
          /\ \A j \in 1..Len(logs) :
                (0 <= logs[j].Filesize /\ logs[j].Filesize <= MaxInt64)
                   => Cardinality({i \in 1..Len(ranges) :
                                      InSpecRange(logs[j].Filesize, i)}) = 1
          /\ (\A j \in 1..Len(logs) : logs[j].Filesize >= 0)
                => result.out[1].Count + result.out[2].Count + result.out[3].Count
                   + result.out[4].Count + result.out[5].Count + result.out[6].Count
                   = Len(logs)

NewRows == table' \ table

\* C23: a POST to /ingest whose body was read and is not empty calls
\* InsertLogSize once with the length of the body; the statement adds one
\* row of that size when it succeeds and none when it fails; the handler
\* answers 200 "OK" exactly when the insert returned nil, which is exactly
\* when one observation of that size was stored for the request, and 500
\* when the insert returned an error.
C23_IngestStoresBodyLength ==
    [][\A c \in Callers :
          /\ \A body \in BodyLens :
                (body > 0 /\ IngestBegin(c, "POST", body, FALSE))
                    => (pc'[c] = "exec" /\ loc'[c].op = "InsertLogSize"
                        /\ loc'[c].filesize = body /\ resp' = resp)
          /\ (pc[c] = "exec" /\ pc'[c] = "insret")
                => IF loc'[c].op = "InsertDone"
                   THEN /\ Cardinality(NewRows) = 1
                        /\ \A r \in NewRows :
                              r.id = loc'[c].id /\ r.filesize = loc[c].filesize
                   ELSE NewRows = {} /\ loc'[c].op = "InsertFailed"
          /\ (pc[c] = "insret" /\ pc'[c] = "idle")
                => /\ resp'.path = "/ingest"
                   /\ resp'.method = "POST"
                   /\ resp'.body = loc[c].filesize
                   /\ resp'.status \in {200, 500}
                   /\ (resp'.status = 200) = (loc[c].op = "InsertDone")
                   /\ (resp'.status = 200) = (resp'.text = "OK")
                   /\ (resp'.status = 200) = ~ret'.err
                   /\ (resp'.status = 200)
                         = (Cardinality({r \in table : r.id = loc[c].id
                                            /\ r.filesize = resp'.body}) = 1)
                   /\ table' = table]_vars

\* A request of the largest body length was answered 200 after another
\* request was answered 500, and its row is stored.
C23_Witness ==
    /\ resp.path = "/ingest"
    /\ resp.status = 200
    /\ resp.body = MaxBody
    /\ faults = MaxFaults
    /\ \E r \in table : r.filesize = MaxBody

\* C24: a request to /ingest with a method other than POST is answered 405,
\* a POST with an empty body 400; in both cases InsertLogSize is not called
\* and the stored observations are unchanged, so no observation of size 0
\* (or less) is ever stored through the handler.
C24_RejectedNotStored ==
    [][/\ (resp' # resp /\ resp'.path = "/ingest")
             => /\ (resp'.method # "POST") = (resp'.status = 405)
                /\ (resp'.method = "POST" /\ resp'.body = 0) => (resp'.status = 400)
                /\ (resp'.status \in {400, 405})
                      => UNCHANGED <<table, seq, pc, loc, ret, insLog>>
       /\ \A r \in table' : r.filesize > 0]_vars

\* An empty POST was answered 400 while the store held an observation and
\* another request was inside InsertLogSize.
C24_Witness ==
    /\ resp.path = "/ingest"
    /\ resp.status = 400
    /\ resp.method = "POST"
    /\ resp.body = 0
    /\ table # {}
    /\ \E c \in Callers : pc[c] = "exec"

\* C25: valid POSTs handled concurrently, interleaved with reads of
\* /api/stats/summary, on a store that suffers no storage failure: every
\* request is answered 200, and the store holds exactly one observation per
\* acknowledged request (its own id, the size of its body) and, once no
\* insert is in flight, no other observation.
C25_ConcurrentIngest ==
    [][/\ \A c \in Callers :
             (InsertReturns(c) /\ faults' = 0)
                 => (resp'.status = 200 /\ Len(insLog') = Len(insLog) + 1)
       /\ \A i \in 1..Len(insLog') :
             Cardinality({r \in table' : r.id = insLog'[i].id}) = 1
             /\ \A r \in table' :
                   r.id = insLog'[i].id => r.filesize = insLog'[i].filesize
       /\ \A i, j \in 1..Len(insLog') : i # j => insLog'[i].id # insLog'[j].id
       /\ (\A c \in Callers : pc'[c] \notin {"exec", "insret"})
             => Cardinality(table') = Len(insLog')]_vars

\* Two requests were inside InsertLogSize together, both were answered 200,
\* and a summary read holds its cursor on the two observations.
C25_Witness ==
    /\ overlap
    /\ faults = 0
    /\ Len(insLog) = NumCallers
    /\ Cardinality(table) = NumCallers
    /\ resp.path = "/ingest"
    /\ resp.status = 200
    /\ \E c \in Callers : pc[c] = "rows"

\* A request to /api/logs/range whose parameters do not both parse.
Unparsable(startStr, endStr) ==
    \/ startStr = EmptyString
    \/ endStr = EmptyString
    \/ ~ParsesRFC3339(startStr)
    \/ ~ParsesRFC3339(endStr)

DefaultLimit == 100
EffectiveLimit(limit) == IF limit = NoLimit THEN DefaultLimit ELSE limit

\* The step in which /api/logs/recent answers with the logs it read, on a
\* store that has not failed.
RecentAnswers ==
    /\ pc[1] = "rows"
    /\ pc'[1] = "idle"
    /\ loc[1].path = "/api/logs/recent"
    /\ faults' = 0
    /\ resp'.success

\* C27: /api/logs/recent returns the most recent entries, ordered by
\* timestamp descending, at most limit records, limit being 100 when the
\* request gives none.
C27_RecentNewestFirst ==
    [][RecentAnswers
          => /\ Len(resp'.data) <= EffectiveLimit(loc[1].limit)
             /\ \A i, j \in 1..Len(resp'.data) :
                   i < j => resp'.data[i].Timestamp.inst >= resp'.data[j].Timestamp.inst
             /\ \A i \in 1..Len(resp'.data) :
                   \A r \in table :
                      \/ \E j \in 1..Len(resp'.data) : resp'.data[j].ID = r.id
                      \/ ScanRow(r).Timestamp.inst <= resp'.data[i].Timestamp.inst]_vars

\* The table with every timestamp written in the offset off: the same
\* instants, another representation.
Reencoded(T, off) ==
    {[r EXCEPT !.timestamp = BindTime([inst |-> ScanTime(r.timestamp).inst, off |-> off])] :
        r \in T}

IdsOf(out) == {out[i].ID : i \in 1..Len(out)}

\* C28: whether QueryByTimeRange returns an observation depends only on the
\* instants of the observation, of start and of end, not on the offsets they
\* are written in: the same window in any other offsets, on the same
\* observations stored in any other offset, selects the same observations.
C28_InstantsOnly ==
    [][\A c \in Callers :
          ReadReturns(c, "QueryByTimeRange")
             => \A w \in Times \X Times, off \in Offsets :
                   (w[1].inst = loc[c].start.inst /\ w[2].inst = loc[c].end.inst)
                      => IdsOf(SelectRange(Reencoded(table, off), w[1], w[2]))
                            = IdsOf(ret'.out)]_vars

\* The elements of GetAll's result on table T whose timestamp lies in
\* [start, end).
GetAllWithin(T, start, end) ==
    {x \in Range(SelectAll(T)) :
        start.inst <= x.Timestamp.inst /\ x.Timestamp.inst < end.inst}

\* C29: the result of QueryByTimeRange(start, end) is exactly the elements
\* of GetAll's result whose timestamp lies in [start, end), with the same id,
\* timestamp and size; and for a fixed window the result only gains elements
\* as observations are inserted.
C29_RangeIsFilteredGetAll ==
    [][/\ \A c \in Callers :
             ReadReturns(c, "QueryByTimeRange")
                => /\ ~ret'.err
                   /\ Range(ret'.out) = GetAllWithin(table, loc[c].start, loc[c].end)
                   /\ Len(ret'.out) = Cardinality(Range(ret'.out))
       /\ \A w \in Times \X Times :
             Range(SelectRange(table, w[1], w[2]))
                \subseteq Range(SelectRange(table', w[1], w[2]))]_vars

\* A result in the order of the statement: timestamps do not decrease, and
\* observations with one timestamp come in ascending id.
InQueryOrder(out) ==
    \A i, j \in 1..Len(out) :
       i < j => /\ out[i].Timestamp.inst <= out[j].Timestamp.inst
                /\ (out[i].Timestamp = out[j].Timestamp => out[i].ID < out[j].ID)

====
